---- MODULE Spec2Model ----
(***************************************************************************)
(* A model of aws_inventory_scan: the error classifier and the retry       *)
(* policy of error_handlers.py, and the scan orchestrator and scan tasks   *)
(* of scan_aws.py, and the configuration module config.py.                 *)
(*                                                                         *)
(* Several specifications share the module, each leaving the variables of  *)
(* the other parts idle.  RetrySpec runs one call of                       *)
(* aws_api_call_with_retry against an operation whose outcome is chosen    *)
(* at every invocation, and RetryFairSpec is RetrySpec with every          *)
(* invocation and every sleep ending.  Spec runs one call of               *)
(* get_all_resource_arns with its worker threads interleaved, and FairSpec *)
(* is Spec with every thread scheduled again and again.  SubmitSpec        *)
(* follows the calling thread of get_all_resource_arns alone, up to its    *)
(* last submit, over a wider range of arguments, configurations and region *)
(* lists.  PoolSpec runs a scan of more tasks than the pool has workers.   *)
(* EcsSpec follows the worker thread of one ECS task.  ConfigSpec runs     *)
(* load_config and create_default_config of config.py on a heap of         *)
(* dictionary objects, and MergeSpec one call of deep_merge.               *)
(***************************************************************************)
EXTENDS Integers, Sequences, FiniteSets, Bags, TLC

VARIABLES
    \* ---- aws_api_call_with_retry (error_handlers.py) ----
    rpc,              \* position in the function: "call", "sleep", "done"
    max_retries,      \* argument max_retries
    initial_backoff,  \* argument initial_backoff (seconds)
    retries,          \* local variable retries
    hist,             \* what each invocation of api_function did, in order
    sleeps,           \* argument of each time.sleep call, in order (in 1/JitterDen s)
    rresult,          \* how the function ended: [kind, value]
    caught,           \* local variable e: the fault caught last (line 113)
    log,              \* the records written to the module logger, in order
    \* ---- get_all_resource_arns and its worker threads (scan_aws.py) ----
    orch,                 \* position of the calling thread in get_all_resource_arns
    config,               \* the "aws" section of the configuration object
    additional_services,  \* argument additional_services
    specific_region,      \* argument specific_region ("None" when absent)
    nscan,                \* how many entries of default_services the run is followed on
    account_id,           \* local variable account_id
    regions,              \* local variable regions
    tasks,                \* the futures submitted so far, with each task's state
    resource_arns,        \* the list shared by the orchestrator and the workers
    returned,             \* the list as the caller receives it
    env,                  \* the remote side: the regions the account has enabled,
                          \* and the calls made, faults raised and resources
                          \* listed so far
    \* ---- the configuration module (config.py) ----
    heap,                 \* the dictionary objects of the interpreter, by address
    user_file,            \* the configuration file load_config finds first
    _config,              \* module global _config: an address, 0 for None
    merge,                \* one call of deep_merge: its arguments and their values before
    loads                 \* how often load_config has run

retryVars == <<rpc, max_retries, initial_backoff, retries, hist, sleeps, rresult, caught,
              log>>

scanVars == <<orch, config, additional_services, specific_region, nscan, account_id, regions,
              tasks, resource_arns, returned, env>>

cfgVars == <<heap, user_file, _config, merge, loads>>
vars == <<retryVars, scanVars, cfgVars>>

-----------------------------------------------------------------------------
(* Bounds *)

\* largest max_retries argument tried
MaxMaxRetries == 5
\* a float carries JitterBits significant bits and random() draws a multiple
\* of 2^-JitterBits (both are 53 bits in the interpreter)
JitterBits == 1

-----------------------------------------------------------------------------
(* error_handlers.py: AWSErrorHandler *)

ACCESS_ERRORS == {"AccessDenied", "UnauthorizedOperation", "AccessDeniedException"}
THROTTLING_ERRORS == {"Throttling", "RequestLimitExceeded", "TooManyRequestsException",
                      "ThrottlingException"}
RESOURCE_ERRORS == {"ResourceNotFoundException", "NoSuchEntity", "NoSuchBucket", "NoSuchKey"}
REGION_ERRORS == {"OptInRequired", "NotSignedUp"}
AUTH_ERRORS == {"InvalidClientTokenId", "AuthFailure", "ExpiredToken", "InvalidAccessKeyId"}

\* A fault is [client |-> is it a botocore ClientError, code |-> its Error.Code].
\* "InternalFailure" stands for a code in none of the vocabularies, "Unknown"
\* is what .get('Code', 'Unknown') gives a ClientError without a code, and a
\* fault that is no ClientError (a transport error) carries no code.
OtherCodes == {"InternalFailure", "Unknown"}
ClientFaults == [client : {TRUE},
                 code : ACCESS_ERRORS \cup THROTTLING_ERRORS \cup RESOURCE_ERRORS
                        \cup REGION_ERRORS \cup AUTH_ERRORS \cup OtherCodes]
GeneralFaults == {[client |-> FALSE, code |-> "none"]}
Faults == ClientFaults \cup GeneralFaults

\* lines 49-84 mutated: the AUTH_ERRORS branch is missing
handle_error_NoAuth(error) ==
    IF error.client
    THEN CASE error.code \in ACCESS_ERRORS -> "access_denied"
           [] error.code \in THROTTLING_ERRORS -> "throttled"
           [] error.code \in RESOURCE_ERRORS -> "not_found"
           [] error.code \in REGION_ERRORS -> "region_opt_in"
           [] OTHER -> "api_error"
    ELSE "general_error"

\* lines 49-84: the kind handle_error returns
handle_error(error) ==
    IF error.client
    THEN CASE error.code \in ACCESS_ERRORS -> "access_denied"
           [] error.code \in THROTTLING_ERRORS -> "throttled"
           [] error.code \in RESOURCE_ERRORS -> "not_found"
           [] error.code \in REGION_ERRORS -> "region_opt_in"
           [] error.code \in AUTH_ERRORS -> "auth_error"
           [] OTHER -> "api_error"
    ELSE "general_error"

\* lines 54, 59, 64, 69, 74, 79, 83: the record handle_error writes to the
\* module logger on its way to each return (lines 86-89 follow the returns
\* and are never reached)
HandlerRecord(error) ==
    LET kind == handle_error(error) IN
    [by |-> "handle_error",
     level |-> CASE kind \in {"access_denied", "throttled"} -> "warning"
                 [] kind \in {"not_found", "region_opt_in"} -> "info"
                 [] OTHER -> "error"]

-----------------------------------------------------------------------------
(* error_handlers.py: aws_api_call_with_retry *)

\* values api_function can return
Responses == {"success", "other"}
InitialBackoffs == {1, 16}


\* the cap of one backoff, in seconds
MaxBackoff == 60

\* what the function can be observed to do when it ends: return a value
\* (None included) or let an exception reach the caller
NoResult == [kind |-> "none", value |-> "none"]
Returned(v) == [kind |-> "return", value |-> v]

\* line 117, mutated: any fault is retried while budget is left
ShouldRetry_AnyFault(error_type, r, m) == error_type # "ok" /\ r < m

\* line 117, mutated: two retries beyond the budget
ShouldRetry_TwoMore(error_type, r, m) == error_type = "throttled" /\ r <= m + 1

\* line 117, mutated: one retry beyond the budget
ShouldRetry_OneMore(error_type, r, m) == error_type = "throttled" /\ r <= m

\* line 117, mutated: the budget is one retry short
ShouldRetry_OneShort(error_type, r, m) == error_type = "throttled" /\ r + 1 < m

\* line 117: if error_type == "throttled" and retries < max_retries
ShouldRetry(error_type, r, m) == error_type = "throttled" /\ r < m

\* the default of the max_retries parameter (line 91)
DefaultMaxRetries == 5

\* random.uniform(0, 1) = 0 + (1 - 0) * random() is one of the JitterDen
\* values j / JitterDen, j in 0..JitterDen-1; durations are counted in units
\* of 1/JitterDen s
JitterDen == 2 ^ JitterBits

\* the largest power of two (times p) that is not above x
RECURSIVE Binade(_, _)
Binade(x, p) == IF 2 * p > x THEN p ELSE Binade(x, 2 * p)

\* the float nearest to x units, ties going to the even significand, as the
\* float addition of line 119 rounds its sum: between 2^e and 2^(e+1)
\* seconds two neighbouring floats are 2^(e+1) units apart, and below one
\* second every multiple of a unit is a float
FloatRound(x) ==
    IF x < JitterDen THEN x
    ELSE LET ulp == (2 * Binade(x, JitterDen)) \div JitterDen
             lo == (x \div ulp) * ulp
             rem == x - lo
         IN IF 2 * rem < ulp THEN lo
            ELSE IF 2 * rem > ulp THEN lo + ulp
            ELSE IF (x \div ulp) % 2 = 0 THEN lo ELSE lo + ulp

\* line 119 mutated: the min(..., 60) is missing
Backoff_NoCap(ib, r, j) == FloatRound(ib * (2 ^ r) * JitterDen + j)

\* line 119: min(initial_backoff * (2 ** retries) + random.uniform(0, 1), 60).
\* The product is an int and exact (the initial backoffs tried are powers of
\* two, which every float width holds); the sum is a float addition
Backoff(ib, r, j) ==
    LET raw == FloatRound(ib * (2 ^ r) * JitterDen + j)
        cap == MaxBackoff * JitterDen
    IN IF raw < cap THEN raw ELSE cap

\* no fault
NoFault == [client |-> FALSE, code |-> "ok"]

\* the remote side before the first call: sts and describe_regions count the
\* calls of get_caller_identity and describe_regions, sts_fault is the fault
\* get_caller_identity raised; mixed tells whether its listings hold objects
\* that lack the attributes the others carry
Remote(enabled) ==
    [regions |-> enabled, sts |-> 0, sts_fault |-> NoFault, describe_regions |-> 0,
     faults |-> 0, arns |-> 0, mixed |-> FALSE]

\* no configuration file
NoFile == [exists |-> FALSE, valid |-> FALSE, content |-> <<>>]
\* no call of deep_merge
NoMerge == [base |-> 0, override |-> 0, before |-> <<>>, over |-> <<>>, done |-> FALSE]

\* the configuration module is not imported
ConfigIdle ==
    /\ heap = <<>>
    /\ user_file = NoFile
    /\ _config = 0
    /\ merge = NoMerge
    /\ loads = 0

\* no scan is in progress
ScanIdle ==
    /\ orch = "idle"
    /\ config = <<>>
    /\ additional_services = <<>>
    /\ specific_region = "None"
    /\ nscan = 0
    /\ account_id = "None"
    /\ regions = <<>>
    /\ tasks = <<>>
    /\ resource_arns = <<>>
    /\ returned = <<>>
    /\ env = Remote(<<>>)

RetryInit ==
    /\ ScanIdle
    /\ ConfigIdle
    /\ rpc = "call"
    /\ max_retries \in 0..MaxMaxRetries
    /\ initial_backoff \in InitialBackoffs
    /\ retries = 0
    /\ hist = <<>>
    /\ sleeps = <<>>
    /\ rresult = NoResult
    /\ caught = NoFault
    /\ log = <<>>

\* line 112: api_function(**kwargs) returns, and so does the function
CallReturns ==
    /\ rpc = "call"
    /\ \E v \in Responses :
          /\ hist' = Append(hist, [type |-> "ok", value |-> v])
          /\ rresult' = Returned(v)
    /\ rpc' = "done"
    /\ UNCHANGED <<max_retries, initial_backoff, retries, sleeps, caught, log, scanVars, cfgVars>>

\* lines 113-122: api_function raises, the fault is classified, and the
\* retry branch is taken: time.sleep(backoff) is called
CallRetried ==
    /\ rpc = "call"
    /\ \E e \in Faults :
          LET error_type == handle_error(e) IN
          /\ ShouldRetry(error_type, retries, max_retries)
          /\ caught' = e
          /\ hist' = Append(hist, [type |-> error_type, value |-> "none"])
          /\ log' = log \o <<HandlerRecord(e),
                              [by |-> "aws_api_call_with_retry", level |-> "warning"]>>
          /\ \E j \in 0..(JitterDen - 1) :
                sleeps' = Append(sleeps, Backoff(initial_backoff, retries, j))
    /\ retries' = retries + 1
    /\ rpc' = "sleep"
    /\ UNCHANGED <<max_retries, initial_backoff, rresult, scanVars, cfgVars>>

\* lines 113-114 and 123-134: api_function raises and one of the four
\* remaining branches is taken; each of them is "return None"
CallGivesUp ==
    /\ rpc = "call"
    /\ \E e \in Faults :
          LET error_type == handle_error(e) IN
          /\ ~ShouldRetry(error_type, retries, max_retries)
          /\ caught' = e
          /\ hist' = Append(hist, [type |-> error_type, value |-> "none"])
          /\ log' = log \o <<HandlerRecord(e)>>
                        \o (IF error_type = "auth_error"
                            THEN <<[by |-> "aws_api_call_with_retry", level |-> "error"]>>
                            ELSE <<>>)
    /\ rresult' = Returned("None")
    /\ rpc' = "done"
    /\ UNCHANGED <<max_retries, initial_backoff, retries, sleeps, scanVars, cfgVars>>

\* line 122: time.sleep returns and the loop goes round (line 110)
SleepReturns ==
    /\ rpc = "sleep"
    /\ rpc' = "call"
    /\ UNCHANGED <<max_retries, initial_backoff, retries, hist, sleeps, rresult, caught,
                   log, scanVars, cfgVars>>

RetryNext == CallReturns \/ CallRetried \/ CallGivesUp \/ SleepReturns

RetrySpec == RetryInit /\ [][RetryNext]_vars

\* every invocation of api_function ends, and so does every time.sleep
RetryFairSpec == RetrySpec /\ WF_vars(RetryNext)

-----------------------------------------------------------------------------
(* Properties of aws_api_call_with_retry *)

AllThrottled(h) == \A i \in 1..Len(h) : h[i].type = "throttled"
NonRetryable == {"access_denied", "not_found", "region_opt_in", "auth_error",
                 "api_error", "general_error"}

\* C1: when every invocation raised a throttling fault and the max_retries
\* retries are used up, the function ends by raising the fault to its caller
\* (it does not return None or any other value).
C1_SurfacesLastFault ==
    (rpc = "done" /\ AllThrottled(hist) /\ Len(hist) = max_retries + 1)
        => rresult.kind = "raise"

\* C9: once an invocation has raised a fault that is not classified
\* throttled, that invocation is the last one and no sleep follows it: every
\* sleep was caused by one of the throttled invocations before it.
C9_OnlyThrottledRetried ==
    \A i \in 1..Len(hist) :
        hist[i].type \in NonRetryable
            => /\ Len(hist) = i
               /\ Len(sleeps) = i - 1
               /\ rpc = "done"

\* a non-throttled fault after two throttled ones, with retry budget left
C9_Witness ==
    /\ rpc = "done"
    /\ Len(hist) = 3
    /\ hist[1].type = "throttled" /\ hist[2].type = "throttled"
    /\ hist[3].type = "access_denied"
    /\ retries < max_retries

\* C10: for every k <= max_retries, after k throttled invocations the
\* function has slept k times and goes on to invocation k+1, and when that
\* one succeeds the function returns its value, having slept exactly k times.
C10_ThrottledThenSuccess ==
    /\ (AllThrottled(hist) /\ Len(hist) <= max_retries)
           => (rpc # "done" /\ Len(sleeps) = Len(hist))
    /\ \A k \in 0..max_retries :
          (/\ rpc = "done"
           /\ Len(hist) = k + 1
           /\ AllThrottled(SubSeq(hist, 1, k))
           /\ hist[k + 1].type = "ok")
              => /\ rresult = Returned(hist[k + 1].value)
                 /\ Len(sleeps) = k

\* success on the last invocation the budget allows (k = max_retries = 3)
C10_Witness ==
    /\ rpc = "done"
    /\ max_retries = 3
    /\ Len(hist) = 4
    /\ AllThrottled(SubSeq(hist, 1, 3))
    /\ hist[4].type = "ok"
    /\ rresult.kind = "return"

\* C11: while every invocation has raised a throttling fault the function
\* has made at most max_retries + 1 invocations, and when it stops it has
\* made exactly max_retries + 1 of them and slept exactly max_retries times.
C11_PersistentThrottling ==
    AllThrottled(hist) =>
        /\ Len(hist) <= max_retries + 1
        /\ rpc = "done" => (Len(hist) = max_retries + 1 /\ Len(sleeps) = max_retries)

\* the function has stopped after four throttled invocations out of four
C11_Witness ==
    /\ rpc = "done"
    /\ max_retries = 3
    /\ AllThrottled(hist)
    /\ Len(hist) = 4
    /\ Len(sleeps) = 3

\* C19: with max_retries = 5 and initial_backoff = 1, three throttled
\* invocations followed by a success leave three sleeps, each strictly
\* longer than the one before, whatever jitter was drawn.
C19_BackoffStrictlyIncreasing ==
    (/\ max_retries = DefaultMaxRetries
     /\ initial_backoff = 1
     /\ rpc = "done"
     /\ Len(hist) = 4
     /\ AllThrottled(SubSeq(hist, 1, 3))
     /\ hist[4].type = "ok")
        => /\ Len(sleeps) = 3
           /\ sleeps[1] < sleeps[2]
           /\ sleeps[2] < sleeps[3]

\* C25: the wait before retry n (the n+1st sleep) is at most 60 seconds, and
\* when it is below 60 seconds it lies between initial_backoff * 2^n and
\* initial_backoff * 2^n + 1 seconds.
C25_BackoffCapped ==
    \A k \in 1..Len(sleeps) :
        LET base == initial_backoff * (2 ^ (k - 1)) * JitterDen IN
        /\ sleeps[k] <= MaxBackoff * JitterDen
        /\ sleeps[k] < MaxBackoff * JitterDen
              => (base <= sleeps[k] /\ sleeps[k] <= base + JitterDen)

\* with initial_backoff = 16 the third wait is cut to 60 seconds, the first
\* two are not
C25_Witness ==
    /\ initial_backoff = 16
    /\ Len(sleeps) = 3
    /\ sleeps[1] < MaxBackoff * JitterDen
    /\ sleeps[2] < MaxBackoff * JitterDen
    /\ sleeps[3] = MaxBackoff * JitterDen

\* C28: in every state the operation has been invoked at most
\* max_retries + 1 times and the sleeps number as many as the retry counter,
\* which is at most max_retries; and the function ends.
C28_RetryTerminates ==
    /\ [](/\ Len(hist) <= max_retries + 1
          /\ Len(sleeps) = retries
          /\ retries <= max_retries)
    /\ <>(rpc = "done")

\* the function has ended after the most invocations the default budget
\* allows, the last of them failing with a fault that is not throttling
C28_Witness ==
    /\ rpc = "done"
    /\ max_retries = DefaultMaxRetries
    /\ Len(hist) = DefaultMaxRetries + 1
    /\ retries = DefaultMaxRetries
    /\ hist[Len(hist)].type = "general_error"

Kinds == {"access_denied", "throttled", "not_found", "region_opt_in", "auth_error",
          "api_error", "general_error"}

\* C14: the fault caught last was given one of the seven kinds, and the kind
\* is the one of the vocabulary that holds the fault's code: api_error for a
\* ClientError whose code is in no vocabulary (or missing), general_error for
\* a fault that is no ClientError.
C14_ClassifierTotal ==
        LET e == caught
            k == hist[Len(hist)].type
            In(S) == e.client /\ e.code \in S
        IN (e # NoFault /\ hist[Len(hist)].type # "ok") =>
              /\ k \in Kinds
              /\ In(ACCESS_ERRORS) <=> (k = "access_denied")
              /\ In(THROTTLING_ERRORS) <=> (k = "throttled")
              /\ In(RESOURCE_ERRORS) <=> (k = "not_found")
              /\ In(REGION_ERRORS) <=> (k = "region_opt_in")
              /\ In(AUTH_ERRORS) <=> (k = "auth_error")
              /\ (e.client /\ e.code \notin (ACCESS_ERRORS \cup THROTTLING_ERRORS
                                               \cup RESOURCE_ERRORS \cup REGION_ERRORS
                                               \cup AUTH_ERRORS))
                    <=> (k = "api_error")
              /\ (~e.client) <=> (k = "general_error")

\* a throttled fault, then a ClientError without a code: api_error
C14_Witness ==
    /\ Len(hist) = 2
    /\ hist[1].type = "throttled"
    /\ caught = [client |-> TRUE, code |-> "Unknown"]
    /\ hist[2].type = "api_error"

\* C20: classifying a fault writes nothing: no record of the log was written
\* by handle_error.
C20_ClassifyingLogsNothing ==
    \A i \in 1..Len(log) : log[i].by # "handle_error"

-----------------------------------------------------------------------------
(* Bounds of the scan *)

\* describe_regions answers with 1..MaxRegions regions
MaxRegions == 2
\* --services names at most MaxAdditional services
MaxAdditional == 2
\* the EC2 collector is followed through its first NumEc2Calls calls
NumEc2Calls == 2
\* remote calls of one scan that end in a fault
MaxFaults == 1
\* resources the account holds, over all the listings of one scan
MaxArns == 2
\* how often load_config runs in one process
MaxLoads == 2
\* the most ECS clusters a region holds
MaxClusters == 2

-----------------------------------------------------------------------------
(* scan_aws.py: the data of the scan *)

default_region == "us-east-1"

default_services ==
    <<"ec2", "s3", "lambda", "dynamodb", "rds", "iam", "cloudformation", "sqs", "sns",
      "kinesisanalytics", "kinesisanalyticsv2", "cloudwatch", "route53", "ecs", "kms">>

\* line 604
global_services == {"iam", "s3", "route53"}

\* config.py, DEFAULT_CONFIG["aws"]["global_services"]
ConfigGlobalServices ==
    {"iam", "s3", "route53", "cloudfront", "organizations", "waf", "shield", "budgets",
     "ce", "chatbot", "health"}

\* ThreadPoolExecutor(max_workers=10)
max_workers == 10

\* config.py, DEFAULT_CONFIG["aws"]
DEFAULT_CONFIG ==
    [default_region |-> "us-east-1",
     global_services |-> ConfigGlobalServices,
     default_services |->
         <<"ec2", "s3", "lambda", "dynamodb", "rds", "iam", "cloudformation", "sqs", "sns",
           "kinesisanalytics", "kinesisanalyticsv2", "cloudwatch", "logs", "route53", "ecs",
           "kms">>,
     max_threads |-> 10,
     max_retries |-> 5,
     initial_backoff |-> 1,
     max_backoff |-> 60]

\* the configurations get_config() can hand out: the defaults, and the
\* defaults with the values of a user's file merged in
Configs ==
    {DEFAULT_CONFIG,
     [DEFAULT_CONFIG EXCEPT !.default_region = "eu-west-1", !.max_threads = 2]}

\* the regions describe_regions can list, in the order it lists them
RegionNames == <<"us-east-1", "eu-west-1", "ap-south-1", "us-west-2">>
RegionLists == {SubSeq(RegionNames, 1, n) : n \in 1..MaxRegions}
\* --region values tried
SpecificRegions == {"None", "eu-west-1"}
\* --services values tried: a global service of the configuration that line
\* 604 does not list, a service that the default list already holds, and a
\* regional service that it does not hold
AdditionalPool == {"cloudfront", "ec2", "apigateway"}
\* services of the generic collector whose one task is followed alone, one
\* for each shape of mapping entry
GenericFollowed ==
    {"acm", "apigateway", "chime", "cloud9", "health", "inspector", "securityhub"}
\* the runs whose worker threads are followed step by step: the scan of the
\* first two default services (one with a branch of several calls, one
\* global) over the listed regions, and scans of one region with a service
\* of the generic collector, or one the default list already holds, added
Scenarios ==
    {[additional |-> <<>>, region |-> "None", nscan |-> 2,
      enabled |-> <<"us-east-1", "eu-west-1">>, mixed |-> FALSE],
     [additional |-> <<"cloudfront">>, region |-> "eu-west-1", nscan |-> 2,
      enabled |-> <<"us-east-1", "eu-west-1">>, mixed |-> FALSE],
     [additional |-> <<"ec2">>, region |-> "eu-west-1", nscan |-> 2,
      enabled |-> <<"us-east-1">>, mixed |-> FALSE]}
    \cup {[additional |-> <<s>>, region |-> "eu-west-1", nscan |-> 0,
           enabled |-> <<"us-east-1">>, mixed |-> TRUE] : s \in GenericFollowed}
\* the account the credentials belong to
AccountIds == {"111122223333"}
ItemIds == <<"id1", "id2", "id3">>

\* the faults the remote side raises during a scan: one of each kind the
\* scan code tells apart, and one that is no ClientError
ScanFaults ==
    {[client |-> TRUE, code |-> "AccessDenied"],
     [client |-> TRUE, code |-> "Throttling"],
     [client |-> TRUE, code |-> "InvalidClientTokenId"],
     [client |-> FALSE, code |-> "none"]}

\* 'token' in str(e): str(e) of a ClientError spells out its error code
StrContains(e, token) ==
    /\ e.client
    /\ CASE token = "AccessDenied" -> e.code \in {"AccessDenied", "AccessDeniedException"}
         [] OTHER -> e.code = token

\* arn:aws:service:region:account:resource, the resource being the tuple of
\* its parts
Arn(service, region, account, resource) ==
    <<"arn", "aws", service, region, account, resource>>

-----------------------------------------------------------------------------
(* scan_aws.py: get_service_resources, for the generic services scanned *)

\* lines 39-166: the entries of the default services that reach the generic
\* collector, and one entry of each other shape the table holds. A key is the tuple
\* of its dot-separated parts, an arn_format the record of what its template
\* fills in: 'arn:aws:<service>:{region}:{account_id}:<prefix>{id}', with
\* {region} or {account_id} left out where the template has none
service_mappings ==
    [acm |-> [method |-> "list_certificates", key |-> <<"CertificateSummaryList">>,
              id_attr |-> "CertificateArn", arn_attr |-> "CertificateArn"],
     apigateway |-> [method |-> "get_rest_apis", key |-> <<"items">>, id_attr |-> "id",
                     arn_format |-> [service |-> "apigateway", region |-> TRUE,
                                     account |-> FALSE, prefix |-> "/restapis/"]],
     chime |-> [method |-> "list_accounts", key |-> <<"Accounts">>,
                arn_attr |-> "AccountId",
                arn_format |-> [service |-> "chime", region |-> FALSE, account |-> TRUE,
                                prefix |-> "account/"]],
     cloud9 |-> [method |-> "list_environments", key |-> <<"environmentIds">>,
                 id_list |-> TRUE,
                 arn_format |-> [service |-> "cloud9", region |-> TRUE, account |-> TRUE,
                                 prefix |-> "environment/"]],
     cloudfront |-> [method |-> "list_distributions",
                     key |-> <<"DistributionList", "Items">>, arn_attr |-> "ARN"],
     health |-> [method |-> "describe_events", key |-> <<"events">>, custom |-> TRUE],
     cloudformation |-> [method |-> "list_stacks", key |-> <<"StackSummaries">>,
                         arn_attr |-> "StackId"],
     kinesisanalytics |->
         [method |-> "list_applications", key |-> <<"ApplicationSummaries">>,
          id_attr |-> "ApplicationName",
          arn_format |-> [service |-> "kinesisanalytics", region |-> TRUE, account |-> TRUE,
                          prefix |-> "application/"]],
     kinesisanalyticsv2 |->
         [method |-> "list_applications", key |-> <<"ApplicationSummaries">>,
          id_attr |-> "ApplicationName",
          arn_format |-> [service |-> "kinesisanalytics", region |-> TRUE, account |-> TRUE,
                          prefix |-> "application/KinesisAnalyticsApplication/"]],
     rds |-> [method |-> "describe_db_instances", key |-> <<"DBInstances">>,
              arn_attr |-> "DBInstanceArn"],
     sns |-> [method |-> "list_topics", key |-> <<"Topics">>, arn_attr |-> "TopicArn"],
     inspector |-> [method |-> "list_assessment_templates",
                    key |-> <<"assessmentTemplateArns">>, arn_list |-> TRUE],
     lambda |-> [method |-> "list_functions", key |-> <<"Functions">>,
                 arn_attr |-> "FunctionArn"],
     dynamodb |-> [method |-> "list_tables", key |-> <<"TableNames">>, id_list |-> TRUE,
                   arn_format |-> [service |-> "dynamodb", region |-> TRUE,
                                   account |-> TRUE, prefix |-> "table/"]],
     securityhub |-> [method |-> "describe_hub", key |-> <<"HubArn">>,
                      direct_arn |-> TRUE]]

\* A string of a response is the tuple of its colon-separated fields: an
\* identifier is one field, an ARN six.
\* str.format mutated: {region} is left empty
FormatArn_NoRegion(tpl, region, account, id) ==
    Arn(tpl.service, "", IF tpl.account THEN account ELSE "", <<tpl.prefix>> \o id)

\* str.format of an arn_format: {region}, {account_id} and {id} are filled in
FormatArn(tpl, region, account, id) ==
    Arn(tpl.service, IF tpl.region THEN region ELSE "",
        IF tpl.account THEN account ELSE "", <<tpl.prefix>> \o id)

\* what the service answers for n resources, as found at the mapping's key:
\* the hub's ARN for describe_hub, bare identifiers or ARNs where the method
\* lists those, and otherwise objects. An object carries its identifier
\* under the attribute the service names it by (Chime: AccountId, API
\* Gateway: id) or its ARN under the attribute the service names that by;
\* the objects numbered in bare carry a Name and nothing else
RemoteItems(service, region, account, n, bare) ==
    LET m == service_mappings[service]
        Is(f) == f \in DOMAIN m
        arn(i) == Arn(service, region, account, <<ItemIds[i]>>)
        count == IF Is("direct_arn") /\ n > 1 THEN 1 ELSE n
    IN [i \in 1..count |->
           IF Is("direct_arn") \/ Is("arn_list") THEN arn(i)
           ELSE IF Is("id_list") THEN <<ItemIds[i]>>
           ELSE IF i \in bare THEN [a \in {"Name"} |-> <<ItemIds[i]>>]
           ELSE IF Is("arn_attr") /\ Is("arn_format") THEN [a \in {m.arn_attr} |-> <<ItemIds[i]>>]
           ELSE IF Is("arn_attr") THEN [a \in {m.arn_attr} |-> arn(i)]
           ELSE IF Is("id_attr") THEN [a \in {m.id_attr} |-> <<ItemIds[i]>>]
           ELSE [a \in {"arn"} |-> arn(i)]]

\* lines 236-237 and 240-241 mutated: an element is taken for its ARN
\* attribute only
Emits_ArnAttrOnly(m, item) == "arn_attr" \in DOMAIN m /\ m.arn_attr \in DOMAIN item

\* lines 236-237 and 240-241: whether an element of an object list yields an
\* ARN
Emits(m, item) ==
    IF "arn_attr" \in DOMAIN m THEN m.arn_attr \in DOMAIN item
    ELSE /\ "id_attr" \in DOMAIN m
         /\ "arn_format" \in DOMAIN m
         /\ m.id_attr \in DOMAIN item

\* lines 238 and 242-248: the ARN an element of an object list yields
ItemArn(m, region, account, item) ==
    IF "arn_attr" \in DOMAIN m THEN item[m.arn_attr]
    ELSE FormatArn(m.arn_format, region, account, item[m.id_attr])

\* line 235 mutated: the loop over the objects ends at the first one that
\* yields nothing
Kept_UntilFirstSkip(m, items) ==
    LET Skipped(i) == ~Emits(m, items[i])
        skipped == SelectSeq([i \in 1..Len(items) |-> i], Skipped)
    IN [i \in 1..(IF skipped = <<>> THEN Len(items) ELSE skipped[1] - 1) |-> i]

\* line 235: the loop over the objects, keeping those that yield an ARN
Kept(m, items) ==
    LET Yields(i) == Emits(m, items[i])
    IN SelectSeq([i \in 1..Len(items) |-> i], Yields)

\* lines 205-249, on what the response holds at the mapping's key: for a
\* direct_arn entry the one ARN there, when the key is present
ExtractResources(service, region, account, items) ==
    LET m == service_mappings[service]
        Flag(f) == f \in DOMAIN m /\ m[f]
    IN IF Flag("direct_arn") THEN items
       ELSE IF Flag("id_list")
       THEN [i \in 1..Len(items) |-> FormatArn(m.arn_format, region, account, items[i])]
       ELSE IF Flag("arn_list") THEN items
       ELSE LET kept == Kept(m, items)
            IN [k \in 1..Len(kept) |-> ItemArn(m, region, account, items[kept[k]])]

-----------------------------------------------------------------------------
(* scan_aws.py: collect_resources_for_service, the EC2 and S3 branches *)

\* lines 264-343: the calls of the EC2 branch that sit directly in the outer
\* try, in order, with the resource type each one contributes
Ec2Calls ==
    <<[method |-> "describe_instances", type |-> "instance/"],
      [method |-> "describe_volumes", type |-> "volume/"],
      [method |-> "describe_security_groups", type |-> "security-group/"],
      [method |-> "describe_addresses", type |-> "elastic-ip/"],
      [method |-> "describe_vpcs", type |-> "vpc/"],
      [method |-> "describe_subnets", type |-> "subnet/"],
      [method |-> "describe_route_tables", type |-> "route-table/"],
      [method |-> "describe_network_acls", type |-> "network-acl/"],
      [method |-> "describe_internet_gateways", type |-> "internet-gateway/"],
      [method |-> "describe_nat_gateways", type |-> "nat-gateway/"],
      [method |-> "describe_network_interfaces", type |-> "network-interface/"]>>

Ec2Program == SubSeq(Ec2Calls, 1, NumEc2Calls)

\* what get_bucket_location can answer for a bucket: None stands for
\* us-east-1 (lines 370-371), any other region is named
BucketLocations == {"None", "eu-west-1"}

\* one future of the pool: a (service, region) work item and where its
\* worker stands in collect_resources_for_service
\*   st       "queued", "running" or "done"
\*   phase    the next remote call of the branch taken
\*   pos      EC2 branch: index of the next call
\*   todo     S3 branch: buckets still to visit
\*   pending  ARNs of the response in hand that are not appended yet
\*   out      every ARN this task has put on resource_arns, in order
\*   calls    every remote call this task has made, with how it ended
\*   fault    the fault that ended the collection, if one did
NewTask(service, region) ==
    [service |-> service, region |-> region, st |-> "queued", phase |-> "new",
     pos |-> 0, todo |-> <<>>, pending |-> <<>>, out |-> <<>>, calls |-> <<>>,
     fault |-> NoFault]

\* lines 264-560: the branch a service takes. The branches of ec2 and s3 are
\* followed call by call and so is the branch of ecs, the five other
\* branches from entry to return only
EntryPhase(service) ==
    CASE service = "ec2" -> "ec2"
      [] service = "s3" -> "list_buckets"
      [] service = "ecs" -> "list_clusters"
      [] service \in {"iam", "sqs", "cloudwatch", "route53", "kms"} -> "branch"
      [] OTHER -> "generic"

\* the worker function returns once its branch is through and every ARN of
\* the last response is appended
Settle(t) ==
    IF t.phase = "end" /\ t.pending = <<>> THEN [t EXCEPT !.st = "done"] ELSE t

\* lines 565-575: both except clauses print and fall off the function, so
\* the fault ends the task whatever it is
FaultEndsTask(t, f) ==
    [t EXCEPT !.st = "done", !.phase = "end", !.pending = <<>>, !.fault = f]

Logged(t, method, o) ==
    [t EXCEPT !.calls = Append(@, [method |-> method,
                                   type |-> IF o.ok THEN "ok" ELSE handle_error(o.fault),
                                   answer |-> o])]

\* lines 358-361: the loop over the buckets reaches its next bucket, whose
\* ARN is appended before its location is asked for
NextBucket(t) ==
    IF t.todo = <<>>
    THEN [t EXCEPT !.phase = "end"]
    ELSE [t EXCEPT !.phase = "get_bucket_location",
                   !.pending = Append(@, Arn("s3", "", "", <<Head(t.todo)>>))]

\* the next remote call of a task in the EC2 or S3 branch
NextMethod(t) ==
    IF t.phase = "ec2" THEN Ec2Program[t.pos].method ELSE t.phase

\* lines 264-343: one call of the EC2 branch and what follows from its outcome
Ec2Step(t, account, o) ==
    LET c == Ec2Program[t.pos] IN
    IF o.ok
    THEN [t EXCEPT !.pending = [k \in 1..o.n |->
                                   Arn("ec2", t.region, account, <<c.type, ItemIds[k]>>)],
                   !.pos = @ + 1,
                   !.phase = IF t.pos = Len(Ec2Program) THEN "end" ELSE "ec2"]
    ELSE FaultEndsTask(t, o.fault)

\* lines 355-381: one call of the S3 branch and what follows from its outcome
S3Step(t, o) ==
    CASE t.phase = "list_buckets" ->
            IF o.ok
            THEN NextBucket([t EXCEPT !.todo = SubSeq(ItemIds, 1, o.n)])
            ELSE FaultEndsTask(t, o.fault)
      [] t.phase = "get_bucket_location" ->
            LET location_constraint == IF o.loc = "None" THEN "us-east-1" ELSE o.loc IN
            IF o.ok /\ (location_constraint = t.region \/ location_constraint = "")
            THEN [t EXCEPT !.phase = "list_objects_v2"]
            ELSE NextBucket([t EXCEPT !.todo = Tail(@)])
      [] t.phase = "list_objects_v2" ->
            LET bucket == Head(t.todo)
                objects == IF o.ok
                           THEN [k \in 1..o.n |-> Arn("s3", "", "", <<bucket, ItemIds[k]>>)]
                           ELSE <<>>
            IN NextBucket([t EXCEPT !.todo = Tail(@), !.pending = objects])

\* what a remote call can do: answer with some of the resources the account
\* still holds, or raise while faults are left
Outcomes(phase) ==
    UNION {[ok : {TRUE}, n : {k}, fault : {NoFault},
            loc : IF phase = "get_bucket_location" THEN BucketLocations ELSE {"None"},
            bare : IF env.mixed /\ phase = "generic" THEN SUBSET (1..k) ELSE {{}}]
           : k \in 0..(MaxArns - env.arns)}
    \cup (IF env.faults < MaxFaults
          THEN [ok : {FALSE}, n : {0}, fault : ScanFaults, loc : {"None"}, bare : {{}}]
          ELSE {})

Counted(o) == [env EXCEPT !.faults = IF o.ok THEN @ ELSE @ + 1, !.arns = @ + o.n]

\* list.append mutated: the new entry takes the place of the last one
ListAppend_Overwrite(list, item) ==
    IF list = <<>> THEN <<item>> ELSE [list EXCEPT ![Len(list)] = item]

\* list.extend mutated: the list is replaced by what was to be added
ListExtend_Replace(list, items) == items

\* list.append and list.extend, each one indivisible step of the interpreter
ListAppend(list, item) == Append(list, item)
ListExtend(list, items) == list \o items

-----------------------------------------------------------------------------
(* scan_aws.py: get_account_id and get_all_resource_arns *)

\* lines 23-31 mutated: the else branch prints and forgets to exit
AccountIdOnError_NoExit(e) ==
    IF StrContains(e, "ExpiredToken") \/ StrContains(e, "InvalidClientTokenId")
       \/ StrContains(e, "AccessDenied")
    THEN "exit" ELSE "return None"

\* lines 23-31: what get_account_id does with a ClientError
AccountIdOnError(e) ==
    IF StrContains(e, "ExpiredToken") \/ StrContains(e, "InvalidClientTokenId")
       \/ StrContains(e, "AccessDenied")
    THEN "exit" ELSE "exit"

\* lines 594-598: the filter of line 598 is evaluated against the default
\* list, before anything is added to it; of the default services the first n
\* are followed
Services(n, additional) ==
    LET NotYet(x) == \A k \in 1..Len(default_services) : default_services[k] # x
    IN SubSeq(default_services, 1, n) \o SelectSeq(additional, NotYet)

\* lines 606-627: the submit calls, in order
RECURSIVE Plan(_, _)
Plan(services, regs) ==
    IF services = <<>> THEN <<>>
    ELSE LET service == Head(services)
             mine == IF service \in global_services
                     THEN <<NewTask(service, default_region)>>
                     ELSE [k \in 1..Len(regs) |-> NewTask(service, regs[k])]
         IN mine \o Plan(Tail(services), regs)

Running(ts) == {i \in 1..Len(ts) : ts[i].st = "running"}

\* line 600 mutated: a pool that starts a thread for every future
WorkerFree_Unbounded(ts) == TRUE

\* line 600: one of the max_workers threads of the pool is idle
WorkerFree(ts) == Cardinality(Running(ts)) < max_workers

\* the with block is left only when every future is done (lines 629-636)
AllDone_First(ts) == \E i \in 1..Len(ts) : ts[i].st = "done"

AllDone_NoneRunning(ts) == \A i \in 1..Len(ts) : ts[i].st # "running"

AllDone(ts) == \A i \in 1..Len(ts) : ts[i].st = "done"

RetryIdle ==
    /\ rpc = "idle"
    /\ max_retries = 0
    /\ initial_backoff = 1
    /\ retries = 0
    /\ hist = <<>>
    /\ sleeps = <<>>
    /\ rresult = NoResult
    /\ caught = NoFault
    /\ log = <<>>

Init ==
    /\ RetryIdle
    /\ ConfigIdle
    /\ orch = "get_account_id"
    /\ config = DEFAULT_CONFIG
    /\ \E sc \in Scenarios :
          /\ additional_services = sc.additional
          /\ specific_region = sc.region
          /\ nscan = sc.nscan
          /\ env = [Remote(sc.enabled) EXCEPT !.mixed = sc.mixed]
    /\ account_id = "None"
    /\ regions = <<>>
    /\ tasks = <<>>
    /\ resource_arns = <<>>
    /\ returned = <<>>

\* line 579, lines 18-22: get_caller_identity answers
GetAccountId ==
    /\ orch = "get_account_id"
    /\ \E a \in AccountIds : account_id' = a
    /\ env' = [env EXCEPT !.sts = @ + 1]
    /\ orch' = "regions"
    /\ UNCHANGED <<config, additional_services, specific_region, nscan, regions, tasks,
                   resource_arns, returned, retryVars, cfgVars>>

\* line 579, lines 23-31: get_caller_identity raises
GetAccountIdFails ==
    /\ orch = "get_account_id"
    /\ \E e \in ScanFaults :
          /\ env' = [env EXCEPT !.sts = @ + 1, !.sts_fault = e, !.faults = @ + 1]
          /\ IF ~e.client THEN orch' = "raised" /\ UNCHANGED account_id
             ELSE IF AccountIdOnError(e) = "exit"
             THEN orch' = "exited" /\ UNCHANGED account_id
             ELSE orch' = "regions" /\ account_id' = "None"
    /\ UNCHANGED <<config, additional_services, specific_region, nscan, regions, tasks,
                   resource_arns, returned, retryVars, cfgVars>>

\* line 581, with lines 12-16 when no region is given
GetRegions ==
    /\ orch = "regions"
    /\ IF specific_region # "None"
       THEN regions' = <<specific_region>> /\ UNCHANGED env
       ELSE /\ regions' = env.regions
            /\ env' = [env EXCEPT !.describe_regions = @ + 1]
    /\ orch' = "submit"
    /\ UNCHANGED <<config, additional_services, specific_region, nscan, account_id, tasks,
                   resource_arns, returned, retryVars, cfgVars>>

\* line 581: describe_regions raises, and nothing catches it
GetRegionsFails ==
    /\ orch = "regions"
    /\ specific_region = "None"
    /\ env' = [env EXCEPT !.describe_regions = @ + 1, !.faults = @ + 1]
    /\ orch' = "raised"
    /\ UNCHANGED <<config, additional_services, specific_region, nscan, account_id, regions,
                   tasks, resource_arns, returned, retryVars, cfgVars>>

\* lines 606-627: one executor.submit
Submit ==
    /\ orch = "submit"
    /\ LET plan == Plan(Services(nscan, additional_services), regions)
           k == Len(tasks) + 1
       IN /\ tasks' = Append(tasks, plan[k])
          /\ orch' = IF k = Len(plan) THEN "wait" ELSE "submit"
    /\ UNCHANGED <<config, additional_services, specific_region, nscan, account_id, regions,
                   resource_arns, returned, env, retryVars, cfgVars>>

\* a free worker of the pool takes the oldest queued future and enters
\* collect_resources_for_service (lines 257-264)
TaskStart(i) ==
    /\ tasks[i].st = "queued"
    /\ \A j \in 1..(i - 1) : tasks[j].st # "queued"
    /\ WorkerFree(tasks)
    /\ tasks' = [tasks EXCEPT ![i] = [@ EXCEPT !.st = "running",
                                               !.phase = EntryPhase(tasks[i].service),
                                               !.pos = 1]]
    /\ UNCHANGED <<orch, config, additional_services, specific_region, nscan, account_id,
                   regions, resource_arns, returned, env, retryVars, cfgVars>>

\* one remote call of the EC2 or S3 branch
OverrideCall(i) ==
    /\ tasks[i].st = "running"
    /\ tasks[i].service \in {"ec2", "s3"}
    /\ tasks[i].phase # "end"
    /\ tasks[i].pending = <<>>
    /\ \E o \in Outcomes(tasks[i].phase) :
          LET t == Logged(tasks[i], NextMethod(tasks[i]), o)
              u == IF t.service = "ec2" THEN Ec2Step(t, account_id, o) ELSE S3Step(t, o)
          IN /\ tasks' = [tasks EXCEPT ![i] = Settle(u)]
             /\ env' = Counted(o)
    /\ UNCHANGED <<orch, config, additional_services, specific_region, nscan, account_id,
                   regions, resource_arns, returned, retryVars, cfgVars>>

\* one resource_arns.append(arn) of the EC2 or S3 branch
TaskAppend(i) ==
    /\ tasks[i].st = "running"
    /\ tasks[i].pending # <<>>
    /\ LET arn == Head(tasks[i].pending) IN
          /\ resource_arns' = ListAppend(resource_arns, arn)
          /\ tasks' = [tasks EXCEPT ![i] = Settle([@ EXCEPT !.pending = Tail(@),
                                                            !.out = Append(@, arn)])]
    /\ UNCHANGED <<orch, config, additional_services, specific_region, nscan, account_id,
                   regions, returned, env, retryVars, cfgVars>>

\* lines 560-563 with get_service_resources (lines 168-255): the one call of
\* a generic service, whose fault line 251 catches, and the extend
GenericCollect(i) ==
    /\ tasks[i].st = "running"
    /\ tasks[i].phase = "generic"
    /\ LET t == tasks[i] IN
       IF t.service \in DOMAIN service_mappings
       THEN \E o \in Outcomes("generic") :
               LET resources ==
                       IF o.ok
                       THEN ExtractResources(t.service, t.region, account_id,
                                RemoteItems(t.service, t.region, account_id, o.n,
                                            o.bare))
                       ELSE <<>>
                   u == Logged(t, service_mappings[t.service].method, o)
               IN /\ resource_arns' = ListExtend(resource_arns, resources)
                  /\ tasks' = [tasks EXCEPT ![i] =
                                  [u EXCEPT !.st = "done", !.phase = "end",
                                            !.out = resources, !.fault = o.fault]]
                  /\ env' = Counted(o)
       ELSE /\ tasks' = [tasks EXCEPT ![i] = [t EXCEPT !.st = "done", !.phase = "end"]]
            /\ UNCHANGED <<resource_arns, env>>
    /\ UNCHANGED <<orch, config, additional_services, specific_region, nscan, account_id,
                   regions, returned, retryVars, cfgVars>>

\* lines 629-636: every future is done, the pool shuts down and the list is
\* handed to the caller
Return ==
    /\ orch = "wait"
    /\ AllDone(tasks)
    /\ returned' = resource_arns
    /\ orch' = "returned"
    /\ UNCHANGED <<config, additional_services, specific_region, nscan, account_id, regions,
                   tasks, resource_arns, env, retryVars, cfgVars>>

Next ==
    \/ GetAccountId
    \/ GetAccountIdFails
    \/ GetRegions
    \/ GetRegionsFails
    \/ Submit
    \/ \E i \in 1..Len(tasks) : TaskStart(i)
    \/ \E i \in 1..Len(tasks) : OverrideCall(i)
    \/ \E i \in 1..Len(tasks) : TaskAppend(i)
    \/ \E i \in 1..Len(tasks) : GenericCollect(i)
    \/ Return

Spec == Init /\ [][Next]_vars

\* every thread that can take a step is scheduled, and every remote call ends
FairSpec == Spec /\ WF_vars(Next)

-----------------------------------------------------------------------------
(* A scan of more services than the pool has workers, in an account that
   holds no resources and answers every call: all that is left to vary is
   the order in which the workers take and finish the tasks. *)

\* lines 383-558: the branch of iam, sqs, cloudwatch, route53 or kms,
\* from entry to return; every listing of the branch answers with nothing
BranchCollect(i) ==
    /\ tasks[i].st = "running"
    /\ tasks[i].phase = "branch"
    /\ tasks' = [tasks EXCEPT ![i] = [@ EXCEPT !.st = "done", !.phase = "end"]]
    /\ UNCHANGED <<orch, config, additional_services, specific_region, nscan, account_id,
                   regions, resource_arns, returned, env, retryVars, cfgVars>>

PoolInit ==
    /\ RetryIdle
    /\ ConfigIdle
    /\ orch = "get_account_id"
    /\ config = DEFAULT_CONFIG
    /\ additional_services = <<>>
    /\ specific_region = "eu-west-1"
    /\ nscan \in {max_workers + 1, max_workers + 2}
    /\ env = [Remote(<<"us-east-1">>) EXCEPT !.faults = MaxFaults, !.arns = MaxArns]
    /\ account_id = "None"
    /\ regions = <<>>
    /\ tasks = <<>>
    /\ resource_arns = <<>>
    /\ returned = <<>>

PoolNext ==
    \/ GetAccountId
    \/ GetRegions
    \/ Submit
    \/ \E i \in 1..Len(tasks) : TaskStart(i)
    \/ \E i \in 1..Len(tasks) : OverrideCall(i)
    \/ \E i \in 1..Len(tasks) : GenericCollect(i)
    \/ \E i \in 1..Len(tasks) : BranchCollect(i)
    \/ Return

PoolSpec == PoolInit /\ [][PoolNext]_vars

-----------------------------------------------------------------------------
(* The calling thread alone, up to its last executor.submit: what it submits
   depends on nothing the workers write. *)

RECURSIVE SeqsUpTo(_, _)
SeqsUpTo(S, n) ==
    IF n = 0 THEN {<<>>}
    ELSE LET shorter == SeqsUpTo(S, n - 1)
         IN shorter \cup {Append(q, x) : q \in shorter, x \in S}

SubmitInit ==
    /\ RetryIdle
    /\ ConfigIdle
    /\ orch = "get_account_id"
    /\ config \in Configs
    /\ additional_services \in SeqsUpTo(AdditionalPool, MaxAdditional)
    /\ specific_region \in SpecificRegions
    /\ nscan \in {2, Len(default_services)}
    /\ env \in {Remote(l) : l \in RegionLists}
    /\ account_id = "None"
    /\ regions = <<>>
    /\ tasks = <<>>
    /\ resource_arns = <<>>
    /\ returned = <<>>

SubmitNext == GetAccountId \/ GetAccountIdFails \/ GetRegions \/ GetRegionsFails \/ Submit

SubmitSpec == SubmitInit /\ [][SubmitNext]_vars

-----------------------------------------------------------------------------
(* Properties of the scan *)

Occ(q, x) == Cardinality({k \in 1..Len(q) : q[k] = x})
BagOfSeq(q) == [x \in {q[k] : k \in 1..Len(q)} |-> Occ(q, x)]

RECURSIVE Appended(_)
\* everything the tasks have put on the shared list, as a bag
Appended(ts) ==
    IF ts = <<>> THEN EmptyBag ELSE BagOfSeq(Head(ts).out) (+) Appended(Tail(ts))

Failed(t) == t.st = "done" /\ t.fault # NoFault
Kind(t) == handle_error(t.fault)
FullyPlanned == Len(tasks) = Len(Plan(Services(nscan, additional_services), regions))

\* C2: once a remote call of a task has failed with an authentication error
\* the scan is aborted: it never goes on to return a result.
C2_AuthErrorAbortsScan ==
    (\E i \in 1..Len(tasks) : Failed(tasks[i]) /\ Kind(tasks[i]) = "auth_error")
        => orch # "returned"

\* C3: when all tasks are submitted, every scanned service of the
\* configuration's global set has exactly one task, and that task carries
\* the default region.
C3_OneTaskPerGlobalService ==
    orch = "wait" =>
        \A k \in 1..Len(tasks) :
            tasks[k].service \in ConfigGlobalServices
                => /\ tasks[k].region = default_region
                   /\ \A j \in 1..Len(tasks) :
                         tasks[j].service = tasks[k].service => j = k

\* C15: when all tasks are submitted, every scanned service that no list of
\* global services names has exactly one task for each region of the region
\* list, and no task for any other region.
C15_OneTaskPerRegion ==
    orch = "wait" =>
        LET services == Services(nscan, additional_services) IN
        \A s \in 1..Len(services) :
            services[s] \notin (ConfigGlobalServices \cup global_services) =>
                /\ \A r \in 1..Len(regions) :
                      Cardinality({k \in 1..Len(tasks) :
                                      /\ tasks[k].service = services[s]
                                      /\ tasks[k].region = regions[r]}) = 1
                /\ \A k \in 1..Len(tasks) :
                      tasks[k].service = services[s]
                          => \E r \in 1..Len(regions) : tasks[k].region = regions[r]

\* C26: no two tasks of a scan have the same service and the same region,
\* whatever list of additional services the scan was given.
C26_NoPairTwice ==
    \A j, k \in 1..Len(tasks) :
        (tasks[j].service = tasks[k].service /\ tasks[j].region = tasks[k].region)
            => j = k

\* C18: when all tasks are submitted, the scan has followed the configuration
\* it was started under: every service of aws.default_services has a task,
\* the tasks of the services of aws.global_services carry aws.default_region,
\* and the pool has aws.max_threads workers.
C18_ConfigurationInjected ==
    (orch = "wait" /\ nscan = Len(default_services)) =>
        /\ \A k \in 1..Len(config.default_services) :
              \E t \in 1..Len(tasks) : tasks[t].service = config.default_services[k]
        /\ \A t \in 1..Len(tasks) :
              tasks[t].service \in config.global_services
                  => tasks[t].region = config.default_region
        /\ max_workers = config.max_threads

\* the modes of extraction an entry switches on; with none of the three
\* flags the entry is in object-list mode
ActiveModes(m) ==
    LET flags == {f \in {"direct_arn", "id_list", "arn_list"} : f \in DOMAIN m /\ m[f]}
    IN IF flags = {} THEN {"object_list"} ELSE flags

\* exactly one mode, and the fields that mode needs
ValidMapping(m) ==
    /\ Cardinality(ActiveModes(m)) = 1
    /\ "id_list" \in ActiveModes(m) => "arn_format" \in DOMAIN m
    /\ "object_list" \in ActiveModes(m) =>
          \/ "arn_attr" \in DOMAIN m
          \/ "id_attr" \in DOMAIN m /\ "arn_format" \in DOMAIN m

\* C16: no task of a service whose mapping entry is not valid is ever
\* started: such an entry is turned down before the tasks run.
C16_MappingsValidated ==
    \A i \in 1..Len(tasks) :
        (/\ tasks[i].service \in DOMAIN service_mappings
         /\ ~ValidMapping(service_mappings[tasks[i].service]))
            => tasks[i].st = "queued"

\* arn:partition:service:region:account:resource
IsArn(x) == Len(x) = 6 /\ x[1] = "arn"

\* C17: every entry of the result list has the six fields of an ARN.
C17_ResultsAreArns ==
    \A i \in 1..Len(resource_arns) : IsArn(resource_arns[i])

\* C13: at most max_workers tasks are running at any time, however many
\* have been submitted; the others are queued or done.
C13_PoolBounded ==
    /\ Cardinality(Running(tasks)) <= max_workers
    /\ \A i \in 1..Len(tasks) : tasks[i].st \in {"queued", "running", "done"}

\* twelve tasks are submitted, ten are running and two wait for a worker
C13_Witness ==
    /\ Len(tasks) = max_workers + 2
    /\ Cardinality(Running(tasks)) = max_workers
    /\ Cardinality({i \in 1..Len(tasks) : tasks[i].st = "queued"}) = 2

\* collect_resources_for_service run on its own, from its entry, on the
\* answers the remote side gave to the calls of one task: the ARNs it puts on
\* the list, in order
RECURSIVE Alone(_, _, _)
Alone(t, account, answers) ==
    IF answers = <<>> THEN t.out
    ELSE LET o == Head(answers)
             u == CASE t.phase = "generic" ->
                          [t EXCEPT !.phase = "end",
                                    !.pending =
                                        IF o.ok
                                        THEN ExtractResources(t.service, t.region, account,
                                                 RemoteItems(t.service, t.region, account,
                                                             o.n, o.bare))
                                        ELSE <<>>]
                    [] t.service = "ec2" -> Ec2Step(t, account, o)
                    [] OTHER -> S3Step(t, o)
         IN Alone([u EXCEPT !.out = @ \o u.pending, !.pending = <<>>], account,
                  Tail(answers))

Range(q) == {q[k] : k \in 1..Len(q)}

\* what the scan is bound to return, as a set, given its inputs and the
\* answers of the remote side: what each task collects when run alone
Determined ==
    UNION {Range(Alone([NewTask(tasks[i].service, tasks[i].region)
                            EXCEPT !.st = "running",
                                   !.phase = EntryPhase(tasks[i].service),
                                   !.pos = 1],
                       account_id,
                       [k \in 1..Len(tasks[i].calls) |-> tasks[i].calls[k].answer]))
           : i \in 1..Len(tasks)}

RECURSIVE InSubmitOrder(_)
InSubmitOrder(ts) == IF ts = <<>> THEN <<>> ELSE Head(ts).out \o InSubmitOrder(Tail(ts))

\* C12: the set of ARNs the scan returns is the one its inputs and the
\* answers of the remote side determine, whatever order the workers ran and
\* finished in.
C12_SetDeterministic ==
    orch = "returned" => Range(returned) = Determined

\* a result whose ARNs are not in the order the tasks were submitted in
C12_Witness ==
    /\ orch = "returned"
    /\ Len(returned) >= 2
    /\ returned # InSubmitOrder(tasks)
    /\ Range(returned) = Range(InSubmitOrder(tasks))

\* a task of the generic collector whose one call was answered
Answered(t) ==
    /\ t.st = "done"
    /\ EntryPhase(t.service) = "generic"
    /\ t.service \in DOMAIN service_mappings
    /\ t.calls # <<>>
    /\ t.calls[1].answer.ok

\* the objects (or identifiers) the call of an answered task was given
ItemsOf(t) ==
    RemoteItems(t.service, t.region, account_id, t.calls[1].answer.n,
                t.calls[1].answer.bare)

\* C21: a task of an id-list service whose listing held N identifiers has
\* put N ARNs on the list, the i-th being the service's template with the
\* task's region, the account id and the i-th identifier filled in.
C21_IdListExtraction ==
    \A i \in 1..Len(tasks) :
        LET t == tasks[i] IN
        (Answered(t) /\ ActiveModes(service_mappings[t.service]) = {"id_list"}) =>
            LET tpl == service_mappings[t.service].arn_format
                n == t.calls[1].answer.n
            IN /\ Len(t.out) = n
               /\ \A k \in 1..n :
                     t.out[k] = <<"arn", "aws", tpl.service,
                                  IF tpl.region THEN t.region ELSE "",
                                  IF tpl.account THEN account_id ELSE "",
                                  <<tpl.prefix, ItemIds[k]>>>>

\* two environment ids of Cloud9 have become two ARNs
C21_Witness ==
    \E i \in 1..Len(tasks) :
        /\ Answered(tasks[i])
        /\ tasks[i].service = "cloud9"
        /\ tasks[i].calls[1].answer.n = 2
        /\ Len(tasks[i].out) = 2
        /\ Len(returned) = 2

\* the identifier an entry of the result ends in
IdOf(x) == IF IsArn(x) THEN x[6][Len(x[6])] ELSE x[Len(x)]

\* C22: a task of an object-list service ends without a fault when objects
\* of its listing carry neither attribute of the mapping; such objects add
\* nothing, and every other object of the listing still adds its entry, in
\* order.
C22_BareElementsSkipped ==
    \A i \in 1..Len(tasks) :
        LET t == tasks[i]
            m == service_mappings[t.service]
        IN (Answered(t) /\ ActiveModes(m) = {"object_list"} /\ ValidMapping(m)) =>
               LET a == t.calls[1].answer
                   NotBare(k) == k \notin a.bare
                   full == SelectSeq([k \in 1..a.n |-> k], NotBare)
               IN /\ t.fault = NoFault
                  /\ Len(t.out) = Len(full)
                  /\ \A k \in 1..Len(full) : IdOf(t.out[k]) = ItemIds[full[k]]

\* the first object of a listing of two carried no attribute of the mapping,
\* and the second one was extracted
C22_Witness ==
    \E i \in 1..Len(tasks) :
        /\ Answered(tasks[i])
        /\ tasks[i].service = "acm"
        /\ tasks[i].calls[1].answer.n = 2
        /\ tasks[i].calls[1].answer.bare = {1}
        /\ Len(tasks[i].out) = 1
        /\ orch = "returned"

\* C24: of the objects an object-list task was given, each one that carries
\* the mapping's ARN attribute has that value in the result, and each one
\* that does not but carries the mapping's id attribute has the template
\* formatted with its id in the result.
C24_PerElementChoice ==
    \A i \in 1..Len(tasks) :
        LET t == tasks[i]
            m == service_mappings[t.service]
        IN (Answered(t) /\ ActiveModes(m) = {"object_list"}) =>
               \A k \in 1..Len(ItemsOf(t)) :
                   LET item == ItemsOf(t)[k]
                       has_arn == "arn_attr" \in DOMAIN m /\ m.arn_attr \in DOMAIN item
                       has_id == "id_attr" \in DOMAIN m /\ m.id_attr \in DOMAIN item
                   IN /\ has_arn => item[m.arn_attr] \in Range(t.out)
                      /\ (~has_arn /\ has_id /\ "arn_format" \in DOMAIN m) =>
                            <<"arn", "aws", m.arn_format.service,
                              IF m.arn_format.region THEN t.region ELSE "",
                              IF m.arn_format.account THEN account_id ELSE "",
                              <<m.arn_format.prefix>> \o item[m.id_attr]>> \in Range(t.out)

\* a REST API object with an id and no ARN has yielded its ARN, next to one
\* that carries neither
C24_Witness ==
    \E i \in 1..Len(tasks) :
        /\ Answered(tasks[i])
        /\ tasks[i].service = "apigateway"
        /\ tasks[i].calls[1].answer.n = 2
        /\ tasks[i].calls[1].answer.bare = {2}
        /\ tasks[i].out = <<<<"arn", "aws", "apigateway", "eu-west-1", "",
                              <<"/restapis/", "id1">>>>>>

\* C27: once the list has been handed to the caller, every planned task has
\* been submitted and has finished, with or without a fault, and the shared
\* list is still the list that was handed over: nothing was appended since.
C27_ReturnsAfterAllTasks ==
    orch = "returned" =>
        /\ FullyPlanned
        /\ \A i \in 1..Len(tasks) : tasks[i].st = "done" /\ tasks[i].pending = <<>>
        /\ resource_arns = returned

\* a scan has returned after a task that ended with a throttling fault and
\* a task that appended its ARNs
C27_Witness ==
    /\ orch = "returned"
    /\ resource_arns = returned
    /\ \E i, j \in 1..Len(tasks) :
          /\ Failed(tasks[i]) /\ Kind(tasks[i]) = "throttled"
          /\ tasks[j].fault = NoFault
          /\ tasks[j].out # <<>>

\* C4: once a task has failed with a fault that is no authentication error,
\* the scan goes on to return, with every planned task submitted and done
\* and every ARN a task appended present in the list the caller receives.
C4_FailureIsolated ==
    (\E i \in 1..Len(tasks) : Failed(tasks[i]) /\ Kind(tasks[i]) # "auth_error")
        ~> (/\ orch = "returned"
            /\ FullyPlanned
            /\ \A j \in 1..Len(tasks) :
                  /\ tasks[j].st = "done"
                  /\ \A k \in 1..Len(tasks[j].out) :
                        Occ(tasks[j].out, tasks[j].out[k]) <= Occ(returned, tasks[j].out[k]))

\* a scan that has returned although one task failed, with an ARN of
\* another task in its result
C4_Witness ==
    /\ orch = "returned"
    /\ \E i, j \in 1..Len(tasks) :
          /\ i # j
          /\ Failed(tasks[i]) /\ Kind(tasks[i]) = "access_denied"
          /\ tasks[j].out # <<>>
          /\ Occ(returned, tasks[j].out[1]) = 1

\* C5: a remote call of a task that was rejected with a throttling fault is
\* invoked again by the task, as long as the call has been throttled no more
\* than max_retries times: no task ends on a throttled call it made once.
C5_ThrottledCallRetried ==
    \A i \in 1..Len(tasks) :
        tasks[i].st = "done" =>
            \A k \in 1..Len(tasks[i].calls) :
                LET c == tasks[i].calls
                    throttled == {j \in 1..k : c[j].method = c[k].method
                                               /\ c[j].type = "throttled"}
                IN (c[k].type = "throttled" /\ Cardinality(throttled) <= DefaultMaxRetries)
                       => (k < Len(c) /\ c[k + 1].method = c[k].method)

\* C6: a task that a fault other than throttling or authentication ended
\* has put no ARN on the result.
C6_FailedTaskYieldsNothing ==
    \A i \in 1..Len(tasks) :
        (Failed(tasks[i]) /\ Kind(tasks[i]) \in NonRetryable \ {"auth_error"})
            => tasks[i].out = <<>>

\* C7: in every state the shared list holds exactly the ARNs the tasks have
\* appended, each as often as it was appended, and so does the list the
\* caller receives.
C7_NoLostUpdate ==
    /\ BagOfSeq(resource_arns) = Appended(tasks)
    /\ orch = "returned" => BagOfSeq(returned) = Appended(tasks)

\* the result holds ARNs of two tasks, the later submitted task's first:
\* the two workers ran side by side
C7_Witness ==
    /\ orch = "returned"
    /\ Len(returned) = 2
    /\ \E i, j \in 1..Len(tasks) :
          /\ i < j
          /\ tasks[j].out = <<returned[1]>>
          /\ tasks[i].out = <<returned[2]>>

\* C8: get_caller_identity and describe_regions are called at most once;
\* while a task exists both resolutions are complete (the account id and the
\* region list are there, describe_regions was called once unless a region
\* was given); a scan whose account-id resolution failed has no task, and it
\* is aborted when the fault was an authentication error.
C8_ResolvedBeforeSubmit ==
    /\ env.sts <= 1
    /\ env.describe_regions <= 1
    /\ tasks # <<>> =>
          /\ env.sts = 1
          /\ account_id \in AccountIds
          /\ regions # <<>>
          /\ env.describe_regions = (IF specific_region = "None" THEN 1 ELSE 0)
    /\ env.sts_fault # NoFault => tasks = <<>>
    /\ handle_error(env.sts_fault) = "auth_error" => orch = "exited"

\* get_caller_identity has been rejected for an invalid token
C8_Witness ==
    /\ env.sts = 1
    /\ env.sts_fault = [client |-> TRUE, code |-> "InvalidClientTokenId"]
    /\ orch = "exited"
    /\ tasks = <<>>

-----------------------------------------------------------------------------
(* The worker thread of one ECS task, followed alone from the moment the   *)
(* task is queued.  The region holds env.ecs.clusters clusters, each with  *)
(* env.ecs.services services and env.ecs.tasks tasks, and                  *)
(* env.ecs.task_definitions task definitions, which belong to no cluster;  *)
(* every listing is one page and answers the same at every call.           *)

EcsClusters(region, account, e) ==
    [k \in 1..e.clusters |-> Arn("ecs", region, account, <<"cluster/", ItemIds[k]>>)]
EcsServices(region, account, e, cluster_arn) ==
    [k \in 1..e.services |->
        Arn("ecs", region, account, <<"service/", cluster_arn[6][2], ItemIds[k]>>)]
EcsTaskDefinitions(region, account, e) ==
    [k \in 1..e.task_definitions |->
        Arn("ecs", region, account, <<"task-definition/", ItemIds[k], "1">>)]
EcsTasks(region, account, e, cluster_arn) ==
    [k \in 1..e.tasks |->
        Arn("ecs", region, account, <<"task/", cluster_arn[6][2], ItemIds[k]>>)]

\* lines 512-513: the loop over the clusters reaches its next cluster, whose
\* ARN is appended before its services are listed
NextCluster(t) ==
    IF t.todo = <<>>
    THEN [t EXCEPT !.phase = "end"]
    ELSE [t EXCEPT !.phase = "list_services", !.pending = Append(@, Head(t.todo))]

\* lines 505-540: one call of the ECS branch and what follows from its
\* outcome; a fault of list_clusters leaves the branch, a fault of one of
\* the three listings of a cluster is printed and the loop goes on. The
\* task definitions are listed in the loop body, with no cluster given
\* (lines 526-529)
EcsStep(t, account, e, ok, fault) ==
    CASE t.phase = "list_clusters" ->
            IF ok
            THEN NextCluster([t EXCEPT !.todo = EcsClusters(t.region, account, e)])
            ELSE FaultEndsTask(t, fault)
      [] t.phase = "list_services" ->
            [t EXCEPT !.phase = "list_task_definitions",
                      !.pending = IF ok THEN EcsServices(t.region, account, e, Head(t.todo))
                                  ELSE <<>>]
      [] t.phase = "list_task_definitions" ->
            [t EXCEPT !.phase = "list_tasks",
                      !.pending = IF ok THEN EcsTaskDefinitions(t.region, account, e)
                                  ELSE <<>>]
      [] t.phase = "list_tasks" ->
            NextCluster([t EXCEPT !.todo = Tail(@),
                                  !.pending = IF ok
                                              THEN EcsTasks(t.region, account, e, Head(t.todo))
                                              ELSE <<>>])

\* one remote call of the ECS branch
EcsCall(i) ==
    /\ tasks[i].st = "running"
    /\ tasks[i].service = "ecs"
    /\ tasks[i].phase # "end"
    /\ tasks[i].pending = <<>>
    /\ \E f \in {NoFault} \cup (IF env.faults < MaxFaults THEN ScanFaults ELSE {}) :
          LET ok == f = NoFault
              o == [ok |-> ok, n |-> 0, fault |-> f, loc |-> "None", bare |-> {}]
              t == Logged(tasks[i], tasks[i].phase, o)
          IN /\ tasks' = [tasks EXCEPT ![i] = Settle(EcsStep(t, account_id, env.ecs, ok, f))]
             /\ env' = [env EXCEPT !.faults = IF ok THEN @ ELSE @ + 1]
    /\ UNCHANGED <<orch, config, additional_services, specific_region, nscan, account_id,
                   regions, resource_arns, returned, retryVars, cfgVars>>

\* get_all_resource_arns has submitted its tasks for one region; of these
\* the task of ecs is followed
EcsInit ==
    /\ RetryIdle
    /\ ConfigIdle
    /\ orch = "wait"
    /\ config = DEFAULT_CONFIG
    /\ additional_services = <<>>
    /\ specific_region = "eu-west-1"
    /\ nscan = 0
    /\ account_id \in AccountIds
    /\ regions = <<"eu-west-1">>
    /\ tasks = <<NewTask("ecs", "eu-west-1")>>
    /\ resource_arns = <<>>
    /\ returned = <<>>
    /\ \E e \in [clusters : 0..MaxClusters, services : 0..1, task_definitions : 0..1,
                  tasks : 0..1] :
          env = [Remote(<<"eu-west-1">>) EXCEPT !.sts = 1] @@ [ecs |-> e]

EcsNext ==
    \/ \E i \in 1..Len(tasks) : TaskStart(i)
    \/ \E i \in 1..Len(tasks) : EcsCall(i)
    \/ \E i \in 1..Len(tasks) : TaskAppend(i)
    \/ Return

EcsSpec == EcsInit /\ [][EcsNext]_vars

\* the ARNs of every ECS resource of the task's region
EcsResources(t) ==
    LET clusters == EcsClusters(t.region, account_id, env.ecs) IN
    Range(clusters) \cup Range(EcsTaskDefinitions(t.region, account_id, env.ecs))
    \cup UNION {Range(EcsServices(t.region, account_id, env.ecs, clusters[k]))
                \cup Range(EcsTasks(t.region, account_id, env.ecs, clusters[k]))
                : k \in 1..Len(clusters)}

\* C30: no ARN is among the ARNs an ECS task has appended more than once,
\* and a task whose calls were all answered has appended the ARN of every
\* cluster, service, task definition and task of its region.
C30_EcsAppendsOnce ==
    \A i \in 1..Len(tasks) :
        LET t == tasks[i] IN
        t.service = "ecs" =>
            /\ \A k \in 1..Len(t.out) : Occ(t.out, t.out[k]) = 1
            /\ (t.st = "done" /\ \A c \in 1..Len(t.calls) : t.calls[c].type = "ok")
                  => Range(t.out) = EcsResources(t)

-----------------------------------------------------------------------------
(* config.py: dictionaries are objects on a heap.  heap[a] is the          *)
(* dictionary at address a, a function from its keys to cells; a cell      *)
(* holds a scalar (ref = 0) or the address of another dictionary.  The     *)
(* value of a dictionary, as == compares it and json.dump writes it, is    *)
(* the tree Tree reads off the heap.                                       *)

Scalar(v) == [ref |-> 0, val |-> v]
Ref(a) == [ref |-> a, val |-> ""]
\* the two kinds of value in a tree: a scalar and a dictionary
Leaf(v) == [d |-> FALSE, v |-> v, kids |-> <<>>]
Dict(kids) == [d |-> TRUE, v |-> "", kids |-> kids]

\* f[k] = c
Put(f, k, c) == [x \in DOMAIN f \cup {k} |-> IF x = k THEN c ELSE f[x]]

RECURSIVE Tree(_, _)
Tree(h, a) ==
    [k \in DOMAIN h[a] |->
        IF h[a][k].ref = 0 THEN Leaf(h[a][k].val) ELSE Dict(Tree(h, h[a][k].ref))]

\* a dictionary display or json.load: every dictionary of the tree becomes a
\* new object
RECURSIVE New(_, _), NewCells(_, _, _, _)
NewCells(h, kids, keys, cells) ==
    IF keys = {} THEN [heap |-> h, cells |-> cells]
    ELSE LET k == CHOOSE x \in keys : TRUE IN
         IF kids[k].d
         THEN LET r == New(h, kids[k].kids)
              IN NewCells(r.heap, kids, keys \ {k}, Put(cells, k, Ref(r.addr)))
         ELSE NewCells(h, kids, keys \ {k}, Put(cells, k, Scalar(kids[k].v)))

New(h, kids) ==
    LET r == NewCells(h, kids, DOMAIN kids, <<>>)
    IN [heap |-> Append(r.heap, r.cells), addr |-> Len(r.heap) + 1]

\* lines 110-119.  The loop of line 115 visits the keys of override in their
\* order of insertion; the keys are taken in an arbitrary order here, which
\* gives the same heap as long as no two keys of base hold the same object.
RECURSIVE deep_merge(_, _, _), MergeKeys(_, _, _, _)

MergeKey_Replace(h, base, override, key) ==
    [h EXCEPT ![base] = Put(@, key, h[override][key])]

\* lines 116-119, one pass of the loop
MergeKey(h, base, override, key) ==
    IF key \in DOMAIN h[base] /\ h[base][key].ref # 0 /\ h[override][key].ref # 0
    THEN deep_merge(h, h[base][key].ref, h[override][key].ref)
    ELSE [h EXCEPT ![base] = Put(@, key, h[override][key])]

MergeKeys(h, base, override, keys) ==
    IF keys = {} THEN h
    ELSE LET k == CHOOSE x \in keys : TRUE
         IN MergeKeys(MergeKey(h, base, override, k), base, override, keys \ {k})

deep_merge(h, base, override) == MergeKeys(h, base, override, DOMAIN h[override])

\* lines 22-63, with the sections and keys the model follows; numbers and
\* lists are written as strings
DEFAULT_CONFIG_TREE ==
    [aws |-> Dict([default_region |-> Leaf("us-east-1"), max_threads |-> Leaf("10")]),
     output |-> Dict([output_format |-> Leaf("json")])]

\* the heap once lines 22-63 have run, and where DEFAULT_CONFIG is on it
DefaultHeap == New(<<>>, DEFAULT_CONFIG_TREE).heap
DEFAULT_CONFIG_ADDR == New(<<>>, DEFAULT_CONFIG_TREE).addr

File(content) == [exists |-> TRUE, valid |-> TRUE, content |-> content]
\* the user files tried: none, one that is no JSON object, the file of
\* test_load_config, one that overrides two sections, one that replaces a
\* section by a scalar, and one with a section of its own
UserFiles ==
    {NoFile,
     [exists |-> TRUE, valid |-> FALSE, content |-> <<>>],
     File([aws |-> Dict([default_region |-> Leaf("us-west-2")])]),
     File([aws |-> Dict([max_threads |-> Leaf("2")]),
           output |-> Dict([output_format |-> Leaf("csv"), pretty_print |-> Leaf("False")])]),
     File([output |-> Leaf("none")]),
     File([scan |-> Dict([include_objects |-> Leaf("False")])])}

\* DEFAULT_CONFIG.copy() (line 83): a new dictionary with the cells of the
\* old one
Copy(h, a) == [heap |-> Append(h, h[a]), addr |-> Len(h) + 1]

\* load_config (lines 75-101): copy the defaults, merge the first file found
\* if it parses to a dictionary, and set _config
LoadConfig ==
    /\ heap # <<>>
    /\ merge = NoMerge
    /\ loads < MaxLoads
    /\ LET c == Copy(heap, DEFAULT_CONFIG_ADDR) IN
          /\ heap' = IF user_file.exists /\ user_file.valid
                     THEN LET u == New(c.heap, user_file.content)
                          IN deep_merge(u.heap, c.addr, u.addr)
                     ELSE c.heap
          /\ _config' = c.addr
    /\ loads' = loads + 1
    /\ UNCHANGED <<user_file, merge, retryVars, scanVars>>

\* create_default_config() (lines 121-138) with path = None: DEFAULT_CONFIG
\* is written to the first path of CONFIG_PATHS
CreateDefaultConfig ==
    /\ heap # <<>>
    /\ merge = NoMerge
    /\ user_file' = File(Tree(heap, DEFAULT_CONFIG_ADDR))
    /\ UNCHANGED <<heap, _config, merge, loads, retryVars, scanVars>>

\* the user writes, replaces or removes the configuration file
WriteUserFile ==
    /\ heap # <<>>
    /\ merge = NoMerge
    /\ \E f \in UserFiles : f # user_file /\ user_file' = f
    /\ UNCHANGED <<heap, _config, merge, loads, retryVars, scanVars>>

\* the module has been executed down to line 71; line 157 is the first
\* LoadConfig
ConfigInit ==
    /\ RetryIdle
    /\ ScanIdle
    /\ heap = DefaultHeap
    /\ user_file \in UserFiles
    /\ _config = 0
    /\ merge = NoMerge
    /\ loads = 0

ConfigNext == LoadConfig \/ CreateDefaultConfig \/ WriteUserFile

ConfigSpec == ConfigInit /\ [][ConfigNext]_vars

\* C29: DEFAULT_CONFIG holds the default values at every nesting level,
\* whatever files load_config has merged.
C29_DefaultsNeverModified ==
    heap # <<>> => Tree(heap, DEFAULT_CONFIG_ADDR) = DEFAULT_CONFIG_TREE

-----------------------------------------------------------------------------
(* deep_merge on its own: the arguments are drawn from the dictionaries    *)
(* of up to three levels over a few keys, base holding the scalar "1" and  *)
(* override the scalar "2".                                                *)

TreesOver(keys, values) == UNION {[K -> values] : K \in SUBSET keys}
DeepTrees(v) == TreesOver({"e"}, {Leaf(v)})
\* on the middle level only key "c" holds dictionaries
MidTrees(v) ==
    {t \in TreesOver({"c", "d"}, {Leaf(v)} \cup {Dict(x) : x \in DeepTrees(v)}) :
        "d" \in DOMAIN t => ~t["d"].d}
TopTrees(v) == TreesOver({"a", "b"}, {Leaf(v)} \cup {Dict(t) : t \in MidTrees(v)})

\* the module is imported where no configuration file is (line 157), and the
\* caller has built the two arguments
MergeInit ==
    /\ RetryIdle
    /\ ScanIdle
    /\ user_file = NoFile
    /\ loads = 1
    /\ \E before \in TopTrees("1"), over \in TopTrees("2") :
          LET c == Copy(DefaultHeap, DEFAULT_CONFIG_ADDR)
              b == New(c.heap, before)
              o == New(b.heap, over)
          IN /\ heap = o.heap
             /\ _config = c.addr
             /\ merge = [base |-> b.addr, override |-> o.addr, before |-> before,
                         over |-> over, done |-> FALSE]

\* deep_merge(base, override), lines 110-119
DeepMergeCall ==
    /\ merge.base # 0
    /\ ~merge.done
    /\ heap' = deep_merge(heap, merge.base, merge.override)
    /\ merge' = [merge EXCEPT !.done = TRUE]
    /\ UNCHANGED <<user_file, _config, loads, retryVars, scanVars>>

MergeSpec == MergeInit /\ [][DeepMergeCall]_vars

\* what the contract says of the value base has after the call, given the
\* values of base and override before it
RECURSIVE MergedAs(_, _, _)
MergedAs(before, over, after) ==
    /\ DOMAIN after = DOMAIN before \cup DOMAIN over
    /\ \A k \in DOMAIN over :
          IF k \in DOMAIN before /\ before[k].d /\ over[k].d
          THEN after[k].d /\ MergedAs(before[k].kids, over[k].kids, after[k].kids)
          ELSE after[k] = over[k]
    /\ \A k \in DOMAIN before \ DOMAIN over : after[k] = before[k]

\* C23: after deep_merge(base, override) base has, under every key of
\* override, override's value, or the merge by the same rule where both
\* values are dictionaries, and under every other key the value it had.
C23_DeepMerge ==
    merge.done => MergedAs(merge.before, merge.over, Tree(heap, merge.base))

\* a call that kept a scalar, and merged a nested dictionary in which it
\* overrode one key and added another
C23_Witness ==
    /\ merge.done
    /\ merge.before = [a |-> Leaf("1"), b |-> Dict([c |-> Leaf("1")])]
    /\ merge.over = [b |-> Dict([c |-> Leaf("2"), d |-> Leaf("2")])]
    /\ Tree(heap, merge.base) =
          [a |-> Leaf("1"), b |-> Dict([c |-> Leaf("2"), d |-> Leaf("2")])]
====
